---------------------------- MODULE Spec2Model ----------------------------
(***************************************************************************)
(* A model of tools/gen_command_tree.py: the compiler from an OpenAPI      *)
(* document to the command tree of the generated CLI.                      *)
(*                                                                         *)
(* A Python string the program takes apart or orders (an operationId, a    *)
(* key of a path item, a "$ref", the name and the location of a parameter) *)
(* is a sequence of one-character strings, so that to_kebab, split,        *)
(* startswith, endswith, upper and the comparison of sorted() are computed *)
(* and not assumed; a string that is only compared for equality is a       *)
(* string.  A dict is a function; a key that is absent is absent from its  *)
(* DOMAIN.                                                                 *)
(***************************************************************************)
EXTENDS Integers, Sequences, FiniteSets, TLC

VARIABLES
    pc,             \* position of the run: which part of the program is next
    doc,            \* main: the (key, value) items of doc["paths"] walked so far
    resources,      \* main: resources, res_name -> list of operation nodes
    out_resources,  \* main: out_resources, the emitted list of resources
    schemas,        \* is_paginated: doc["components"]["schemas"]
    stack,          \* is_paginated: the call stack of the recursion
    call,           \* the function under evaluation and its arguments
    ret             \* its return value

vars == <<pc, doc, resources, out_resources, schemas, stack, call, ret>>

(***************************************************************************)
(* Bounds of the exploration.                                              *)
(***************************************************************************)
MaxEntries == 3     \* items of the paths walk (path, key) in one document

(***************************************************************************)
(* Strings.                                                                *)
(***************************************************************************)
Upper == <<"A","B","C","D","E","F","G","H","I","J","K","L","M",
           "N","O","P","Q","R","S","T","U","V","W","X","Y","Z">>
Lower == <<"a","b","c","d","e","f","g","h","i","j","k","l","m",
           "n","o","p","q","r","s","t","u","v","w","x","y","z">>
Digits == <<"0","1","2","3","4","5","6","7","8","9">>

\* The characters of the model in code point order.
Ascii == <<"-", "/">> \o Digits \o Upper \o <<"_">> \o Lower

Range(s) == {s[i] : i \in DOMAIN s}
UpperSet == Range(Upper)
LowerSet == Range(Lower)
DigitSet == Range(Digits)
OrdOf == [c \in Range(Ascii) |-> CHOOSE i \in DOMAIN Ascii : Ascii[i] = c]
LowerOf == [c \in UpperSet |-> Lower[CHOOSE i \in DOMAIN Upper : Upper[i] = c]]
UpperOf == [c \in LowerSet |-> Upper[CHOOSE i \in DOMAIN Lower : Lower[i] = c]]
Ord(c) == OrdOf[c]
IsUpper(c) == c \in UpperSet
IsLower(c) == c \in LowerSet
IsDigit(c) == c \in DigitSet
Min(S) == CHOOSE x \in S : \A y \in S : x <= y

\* a < b on Python strings: code points, lexicographic.
StrLess(a, b) ==
    LET n == IF Len(a) < Len(b) THEN Len(a) ELSE Len(b)
        d == {i \in 1..n : a[i] # b[i]}
    IN  IF d = {} THEN Len(a) < Len(b)
        ELSE Ord(a[Min(d)]) < Ord(b[Min(d)])

ToLower(c) == IF IsUpper(c) THEN LowerOf[c] ELSE c
ToUpper(c) == IF IsLower(c) THEN UpperOf[c] ELSE c
StrLower(s) == [i \in DOMAIN s |-> ToLower(s[i])]
StrUpper(s) == [i \in DOMAIN s |-> ToUpper(s[i])]
StartsWith(s, p) == Len(s) >= Len(p) /\ SubSeq(s, 1, Len(p)) = p
EndsWith(s, p) == Len(s) >= Len(p) /\ SubSeq(s, Len(s) - Len(p) + 1, Len(s)) = p

\* str(n) of a natural number.
RECURSIVE Str(_)
Str(n) == IF n < 10 THEN <<Digits[n + 1]>>
          ELSE Str(n \div 10) \o <<Digits[(n % 10) + 1]>>

\* s.split(sep) for a one-character separator.
RECURSIVE Split(_, _)
Split(s, sep) ==
    LET at == {i \in DOMAIN s : s[i] = sep}
    IN  IF at = {} THEN <<s>>
        ELSE <<SubSeq(s, 1, Min(at) - 1)>> \o Split(SubSeq(s, Min(at) + 1, Len(s)), sep)

\* sep.join(parts).
RECURSIVE Join(_, _)
Join(parts, sep) ==
    IF Len(parts) = 0 THEN <<>>
    ELSE IF Len(parts) = 1 THEN parts[1]
    ELSE parts[1] \o sep \o Join(Tail(parts), sep)

(***************************************************************************)
(* to_kebab                                                                *)
(***************************************************************************)
\* value.replace("_", "-")
ReplaceUnderscore(s) == [i \in DOMAIN s |-> IF s[i] = "_" THEN "-" ELSE s[i]]

\* The end of the longest run of lowercase letters that starts at i (i - 1 if none).
RECURSIVE LowerRunEnd(_, _)
LowerRunEnd(s, i) ==
    IF i <= Len(s) /\ IsLower(s[i]) THEN LowerRunEnd(s, i + 1) ELSE i - 1

\* re.sub(r"(.)([A-Z][a-z]+)", r"\1-\2", s): leftmost, non-overlapping matches.
RECURSIVE SubCamelWord(_, _)
SubCamelWord(s, i) ==
    IF i > Len(s) THEN <<>>
    ELSE IF i + 2 <= Len(s) /\ IsUpper(s[i + 1]) /\ IsLower(s[i + 2])
         THEN LET e == LowerRunEnd(s, i + 2)
              IN  <<s[i], "-">> \o SubSeq(s, i + 1, e) \o SubCamelWord(s, e + 1)
         ELSE <<s[i]>> \o SubCamelWord(s, i + 1)

\* re.sub(r"([a-z0-9])([A-Z])", r"\1-\2", s)
RECURSIVE SubLowerUpper(_, _)
SubLowerUpper(s, i) ==
    IF i > Len(s) THEN <<>>
    ELSE IF i + 1 <= Len(s) /\ (IsLower(s[i]) \/ IsDigit(s[i])) /\ IsUpper(s[i + 1])
         THEN <<s[i], "-", s[i + 1]>> \o SubLowerUpper(s, i + 2)
         ELSE <<s[i]>> \o SubLowerUpper(s, i + 1)

\* re.sub(r"-+", "-", s)
RECURSIVE CollapseHyphens(_)
CollapseHyphens(s) ==
    IF Len(s) < 2 THEN s
    ELSE IF s[1] = "-" /\ s[2] = "-" THEN CollapseHyphens(Tail(s))
    ELSE <<s[1]>> \o CollapseHyphens(Tail(s))

\* s.strip("-")
RECURSIVE StripHyphens(_)
StripHyphens(s) ==
    IF Len(s) = 0 THEN s
    ELSE IF s[1] = "-" THEN StripHyphens(Tail(s))
    ELSE IF s[Len(s)] = "-" THEN StripHyphens(SubSeq(s, 1, Len(s) - 1))
    ELSE s

to_kebab(value) ==
    StrLower(StripHyphens(CollapseHyphens(
        SubLowerUpper(SubCamelWord(ReplaceUnderscore(value), 1), 1))))

(***************************************************************************)
(* normalize_op_id: the pair <<resource name, operation name>>.            *)
(***************************************************************************)
misc == <<"m","i","s","c">>

normalize_op_id(op_id, tags) ==
    LET parts == Split(op_id, "/")
    IN  IF Len(parts) = 1
        THEN <<to_kebab(IF Len(tags) > 0 THEN tags[1] ELSE misc), to_kebab(parts[1])>>
        ELSE IF Len(parts) = 2
        THEN <<to_kebab(parts[1]), to_kebab(parts[2])>>
        ELSE <<to_kebab(parts[1]), to_kebab(Join(Tail(parts), <<"-">>))>>


(***************************************************************************)
(* The documents of the exploration.  A path item is walked in the order   *)
(* of PathKeys, and the paths in the order of their numbers; the value     *)
(* under a key is drawn from Values(key).                                  *)
(***************************************************************************)
get == <<"g","e","t">>
post == <<"p","o","s","t">>
put == <<"p","u","t">>
patch == <<"p","a","t","c","h">>
delete == <<"d","e","l","e","t","e">>
head == <<"h","e","a","d">>
x_internal == <<"x","-","i","n","t","e","r","n","a","l">>
parameters == <<"p","a","r","a","m","e","t","e","r","s">>

Paths == {1, 2}

PathKeys == <<get, post, put, patch, delete, head, x_internal, parameters>>

boards_list == <<"b","o","a","r","d","s","/","l","i","s","t">>
Boards_list_slash_2 == <<"B","o","a","r","d","s","/","l","i","s","t","/","2">>
list_2 == <<"l","i","s","t","_","2">>
listPins == <<"l","i","s","t","P","i","n","s">>
Boards == <<"B","o","a","r","d","s">>

\* Operation objects: without operationId, and with one of two segments, of
\* three, of one with tags and of one without.
Ops == { [summary |-> <<"s">>],
         [operationId |-> boards_list],
         [operationId |-> Boards_list_slash_2],
         [operationId |-> list_2, tags |-> <<Boards>>],
         [operationId |-> listPins] }

Values(key) ==
    IF key = parameters THEN {<<>>}
    ELSE IF key \in {x_internal, head} THEN {[operationId |-> boards_list]}
    ELSE Ops

KeyIndex(key) == CHOOSE i \in DOMAIN PathKeys : PathKeys[i] = key
Slot(e) == (e.path - 1) * Len(PathKeys) + KeyIndex(e.key)

Entries ==
    UNION { { [path |-> p, key |-> PathKeys[k], op |-> v] : v \in Values(PathKeys[k]) }
            : <<p, k>> \in Paths \X DOMAIN PathKeys }

(***************************************************************************)
(* main                                                                    *)
(***************************************************************************)
Has(d, k) == k \in DOMAIN d

\* ("get", "post", "put", "patch", "delete")
HttpMethodsNoDelete == {get, post, put, patch}
HttpMethods == {get, post, put, patch, delete}

\* op.get("tags") or []
TagsOf(op) == IF Has(op, "tags") THEN op.tags ELSE <<>>

\* The key and the operation pass the three "continue" of the loop body.
IsEmitted(e) ==
    /\ ~StartsWith(e.key, <<"x", "-">>)
    /\ e.key \in HttpMethods
    /\ Has(e.op, "operationId")
    /\ e.op.operationId # <<>>

\* The node appended to resources[res_name]; paginated, security, params and
\* request_body are modelled by is_paginated, Security, Params and the
\* other functions below.
OpNode(e) ==
    [ name |-> normalize_op_id(e.op.operationId, TagsOf(e.op))[2],
      method |-> StrUpper(e.key),
      path |-> e.path,
      tags |-> TagsOf(e.op) ]

ResName(e) == normalize_op_id(e.op.operationId, TagsOf(e.op))[1]

\* One iteration of "for method, op in path_item.items()".
LoopBody(res, e) ==
    IF ~IsEmitted(e) THEN res
    ELSE LET r == ResName(e)
         IN  [n \in DOMAIN res \cup {r} |->
                 IF n = r
                 THEN (IF r \in DOMAIN res THEN res[r] ELSE <<>>) \o <<OpNode(e)>>
                 ELSE res[n]]

\* The loop "for op in ops" with its dict seen, from index i on.
RECURSIVE DisambiguateFrom(_, _, _)
DisambiguateFrom(ops, i, seen) ==
    IF i > Len(ops) THEN ops
    ELSE LET base == ops[i].name
         IN  IF base \in DOMAIN seen
             THEN DisambiguateFrom(
                      [ops EXCEPT ![i].name = base \o <<"-">> \o Str(seen[base] + 1)],
                      i + 1, [seen EXCEPT ![base] = seen[base] + 1])
             ELSE DisambiguateFrom(ops, i + 1, seen @@ (base :> 1))

\* A mutant: the counter starts at 0, so the second occurrence gets "-1".
RECURSIVE DisambiguateFromZero(_, _, _)
DisambiguateFromZero(ops, i, seen) ==
    IF i > Len(ops) THEN ops
    ELSE LET base == ops[i].name
         IN  IF base \in DOMAIN seen
             THEN DisambiguateFromZero(
                      [ops EXCEPT ![i].name = base \o <<"-">> \o Str(seen[base] + 1)],
                      i + 1, [seen EXCEPT ![base] = seen[base] + 1])
             ELSE DisambiguateFromZero(ops, i + 1, seen @@ (base :> 0))

DisambiguateZero(ops) == DisambiguateFromZero(ops, 1, <<>>)
Disambiguate(ops) == DisambiguateFrom(ops, 1, <<>>)

\* ops.sort(key=lambda o: o["name"]): a stable sort.
RECURSIVE InsertByName(_, _)
InsertByName(sorted, o) ==
    IF Len(sorted) = 0 THEN <<o>>
    ELSE IF StrLess(o.name, sorted[Len(sorted)].name)
         THEN InsertByName(SubSeq(sorted, 1, Len(sorted) - 1), o) \o <<sorted[Len(sorted)]>>
         ELSE sorted \o <<o>>

RECURSIVE SortByName(_)
SortByName(ops) ==
    IF Len(ops) = 0 THEN <<>>
    ELSE InsertByName(SortByName(SubSeq(ops, 1, Len(ops) - 1)), ops[Len(ops)])

\* sorted(resources.keys())
RECURSIVE SortedKeys(_)
SortedKeys(S) ==
    IF S = {} THEN <<>>
    ELSE LET m == CHOOSE x \in S : \A y \in S \ {x} : StrLess(x, y)
         IN  <<m>> \o SortedKeys(S \ {m})

\* The loop "for res_name in sorted(resources.keys())".
OutResources(res) ==
    LET keys == SortedKeys(DOMAIN res)
    IN  [i \in DOMAIN keys |->
            [name |-> keys[i], ops |-> SortByName(Disambiguate(res[keys[i]]))]]

Idle == <<>>

InitMain ==
    /\ pc = "paths"
    /\ doc = <<>>
    /\ resources = <<>>
    /\ out_resources = <<>>
    /\ schemas = Idle /\ stack = Idle /\ call = Idle /\ ret = Idle

\* The next item of the walk over doc["paths"] and its path items.
PathsItem ==
    /\ pc = "paths"
    /\ Len(doc) < MaxEntries
    /\ \E e \in Entries :
          /\ doc # <<>> => Slot(e) > Slot(doc[Len(doc)])
          /\ doc' = Append(doc, e)
          /\ resources' = LoopBody(resources, e)
    /\ UNCHANGED <<pc, out_resources, schemas, stack, call, ret>>

\* The walk is over: disambiguate and sort every resource, build out.
Finalize ==
    /\ pc = "paths"
    /\ out_resources' = OutResources(resources)
    /\ resources' = [n \in DOMAIN resources |->
                        (CHOOSE r \in Range(out_resources') : r.name = n).ops]
    /\ pc' = "done"
    /\ UNCHANGED <<doc, schemas, stack, call, ret>>

NextMain == PathsItem \/ Finalize

Spec == InitMain /\ [][NextMain]_vars

(***************************************************************************)
(* The emitted tree against the document.                                  *)
(***************************************************************************)
\* The positions <<resource, operation>> of the emitted tree.
EmittedOps ==
    {<<r, j>> \in (DOMAIN out_resources) \X (1..MaxEntries) :
        j \in DOMAIN out_resources[r].ops}
NodeAt(pos) == out_resources[pos[1]].ops[pos[2]]

\* An item of the document that is an operation with an identifier under one of
\* the five methods.
IsOperation(e) ==
    /\ e.key \in {get, post, put, patch, delete}
    /\ "operationId" \in DOMAIN e.op

\* The item of the document an emitted node was built from.
SourceOf(o) ==
    CHOOSE i \in DOMAIN doc :
        IsOperation(doc[i]) /\ doc[i].path = o.path /\ StrUpper(doc[i].key) = o.method

\* The names each operation object of the exploration normalizes to.
NormalizedOp ==
    [v \in {w \in Ops : "operationId" \in DOMAIN w} |->
        normalize_op_id(v.operationId, IF "tags" \in DOMAIN v THEN v.tags ELSE <<>>)]
Normalized(e) == NormalizedOp[e.op]

\* How many operations up to item i of the document normalize to the names of item i.
Occurrence(i) ==
    Cardinality({j \in 1..i : IsOperation(doc[j]) /\ Normalized(doc[j]) = Normalized(doc[i])})

\* C1: in the emitted tree the operation names of one resource are pairwise
\* distinct, whatever the normalized names were (names that already end in a
\* numeric suffix included).
C1_UniqueOpNames ==
    pc = "done" =>
        \A p \in EmittedOps, q \in EmittedOps :
            (p[1] = q[1] /\ p[2] # q[2]) => NodeAt(p).name # NodeAt(q).name

\* C2: the first operation of a resource, in the order of the document, with a
\* given normalized name keeps it, and the k-th (k >= 2) gets that name with
\* "-k" appended.
C2_NumberingFollowsDocument ==
    pc = "done" =>
        \A p \in EmittedOps :
            LET i == SourceOf(NodeAt(p))
                k == Occurrence(i)
                base == Normalized(doc[i])[2]
            IN  /\ out_resources[p[1]].name = Normalized(doc[i])[1]
                /\ NodeAt(p).name = IF k = 1 THEN base ELSE base \o <<"-">> \o Str(k)

\* Two operations A then B that normalize to boards, list were emitted as "list"
\* and "list-2".
C2_Witness ==
    /\ pc = "done"
    /\ \E p \in EmittedOps, q \in EmittedOps :
          /\ p[1] = q[1]
          /\ SourceOf(NodeAt(p)) < SourceOf(NodeAt(q))
          /\ Normalized(doc[SourceOf(NodeAt(p))]) = Normalized(doc[SourceOf(NodeAt(q))])
          /\ NodeAt(p).name = <<"l","i","s","t">>
          /\ NodeAt(q).name = <<"l","i","s","t","-","2">>

\* C7: the emitted tree holds exactly one operation for each item of the document
\* that is an operation with an identifier under one of the five methods, and none
\* for any other item.
C7_OneNodePerOperation ==
    pc = "done" =>
        /\ \A i \in DOMAIN doc :
              IsOperation(doc[i]) =>
                 Cardinality({p \in EmittedOps :
                                 /\ NodeAt(p).path = doc[i].path
                                 /\ NodeAt(p).method = StrUpper(doc[i].key)}) = 1
        /\ \A p \in EmittedOps :
              \E i \in DOMAIN doc :
                 /\ IsOperation(doc[i])
                 /\ NodeAt(p).path = doc[i].path
                 /\ NodeAt(p).method = StrUpper(doc[i].key)

\* A document with a delete operation, an operation without identifier and a key
\* that is no method was compiled.
C7_Witness ==
    /\ pc = "done"
    /\ \E i \in DOMAIN doc : IsOperation(doc[i]) /\ doc[i].key = delete
    /\ \E i \in DOMAIN doc : doc[i].key \in {get, post} /\ ~("operationId" \in DOMAIN doc[i].op)
    /\ \E i \in DOMAIN doc : doc[i].key \in {head, x_internal, parameters}
    /\ EmittedOps # {}

(***************************************************************************)
(* resolve_ref                                                             *)
(*                                                                         *)
(* A call that returns gives [ok |-> TRUE, value |-> v]; a call that       *)
(* raises gives [ok |-> FALSE, error |-> the exception].                   *)
(***************************************************************************)
\* "for part in ...: cur = cur[part]"
RECURSIVE Walk(_, _)
Walk(cur, parts) ==
    IF Len(parts) = 0 THEN [ok |-> TRUE, value |-> cur]
    ELSE IF parts[1] \in DOMAIN cur THEN Walk(cur[parts[1]], Tail(parts))
    ELSE [ok |-> FALSE, error |-> "KeyError"]

resolve_ref(d, ref) ==
    IF ~StartsWith(ref, <<"#", "/">>) THEN [ok |-> FALSE, error |-> "RuntimeError"]
    ELSE Walk(d, Split(SubSeq(ref, 3, Len(ref)), "/"))

(***************************************************************************)
(* The schemas of the exploration.  A schema is a dict with the keys       *)
(* "$ref", "allOf" and "type"; the empty dict and None are both <<>>       *)
(* ("not schema" holds of both).                                           *)
(***************************************************************************)
MaxDepth == 7       \* frames of is_paginated the exploration follows

components == <<"c","o","m","p","o","n","e","n","t","s">>
schemas_key == <<"s","c","h","e","m","a","s">>
A == <<"A">>
B == <<"B">>
SchemaNames == {A, B}

RefTo(name) == <<"#", "/">> \o components \o <<"/">> \o schemas_key \o <<"/">> \o name
RefPaginated == RefTo(<<"P","a","g","i","n","a","t","e","d">>)
RefExternal == <<"x",".","j","s","o","n","#","/","A">>
SlashPaginated == <<"/","P","a","g","i","n","a","t","e","d">>

\* The document around the component schemas.
DocOf(sch) == (components :> (schemas_key :> sch))

Leaf == [type |-> "object"]
RefSchema(ref) == ("$ref" :> ref)
AllOfSchema(branches) == ("allOf" :> branches)

Refs == {RefTo(A), RefTo(B), RefPaginated, RefExternal}
Branches == {Leaf} \cup {RefSchema(r) : r \in {RefTo(A), RefTo(B), RefPaginated}}
BranchLists == {<<>>} \cup {<<x>> : x \in Branches} \cup {<<x, y>> : x \in Branches, y \in Branches}

SchemaBodies ==
    {<<>>, Leaf}
    \cup {RefSchema(r) : r \in Refs}
    \cup {AllOfSchema(l) : l \in BranchLists}
    \cup {RefSchema(RefTo(B)) @@ AllOfSchema(<<RefSchema(RefPaginated)>>)}

(***************************************************************************)
(* is_paginated, one frame of the recursion per element of stack.  A frame *)
(* is [schema, at]: at = 0 before the body ran, at = 1 while the call      *)
(* under "$ref" is open, at = i while branch i of "allOf" is open.  ret is *)
(* the value the last return handed to its caller, "none" when a call is   *)
(* open.                                                                   *)
(***************************************************************************)
Top == stack[Len(stack)]
Pop == SubSeq(stack, 1, Len(stack) - 1)
Push(at, schema) ==
    Append([stack EXCEPT ![Len(stack)].at = at], [schema |-> schema, at |-> 0])

\* any(...) after branch at returned v: the value to return, or "none" to go on
\* with the next branch.
AllNext(allOf, at, v) ==
    IF v = "False" THEN "False"
    ELSE IF at < Len(allOf) THEN "none" ELSE "True"
AnyNext(allOf, at, v) ==
    IF v = "True" THEN "True"
    ELSE IF at < Len(allOf) THEN "none" ELSE "False"

\* "return v" of the top frame.
Return(v) ==
    /\ stack' = Pop
    /\ ret' = v
    /\ pc' = IF Len(stack) = 1 THEN "done" ELSE pc

\* A call of is_paginated(doc, schema) from the top frame.
Call(at, schema) ==
    /\ Len(stack) < MaxDepth
    /\ stack' = Push(at, schema)
    /\ ret' = "none"
    /\ pc' = pc

\* An exception no one catches ends the program.
Raise ==
    /\ pc' = "error"
    /\ UNCHANGED <<stack, ret>>

InitPaginated ==
    /\ pc = "is_paginated"
    /\ schemas \in [SchemaNames -> SchemaBodies]
    /\ \E root \in SchemaBodies :
          /\ call = [fn |-> "is_paginated", schema |-> root]
          /\ stack = <<[schema |-> root, at |-> 0]>>
    /\ ret = "none"
    /\ doc = Idle /\ resources = Idle /\ out_resources = Idle

\* The body of is_paginated up to its first call or return.
IsPaginatedBody ==
    /\ pc = "is_paginated"
    /\ ret = "none"
    /\ Top.at = 0
    /\ LET schema == Top.schema
       IN  IF schema = <<>> THEN Return("False")
           ELSE IF Has(schema, "$ref")
           THEN IF EndsWith(schema["$ref"], SlashPaginated) THEN Return("True")
                ELSE LET r == resolve_ref(DocOf(schemas), schema["$ref"])
                     IN  IF r.ok THEN Call(1, r.value) ELSE Raise
           ELSE IF Has(schema, "allOf")
           THEN IF Len(schema["allOf"]) = 0 THEN Return("False")
                ELSE Call(1, schema["allOf"][1])
           ELSE Return("False")
    /\ UNCHANGED <<doc, resources, out_resources, schemas, call>>

\* A call returned ret to the top frame.
IsPaginatedResume ==
    /\ pc = "is_paginated"
    /\ ret # "none"
    /\ LET schema == Top.schema
       IN  IF Has(schema, "$ref") THEN Return(ret)
           ELSE LET v == AnyNext(schema["allOf"], Top.at, ret)
                IN  IF v = "none" THEN Call(Top.at + 1, schema["allOf"][Top.at + 1])
                    ELSE Return(v)
    /\ UNCHANGED <<doc, resources, out_resources, schemas, call>>

NextPaginated == IsPaginatedBody \/ IsPaginatedResume

SpecPaginated == InitPaginated /\ [][NextPaginated]_vars

(***************************************************************************)
(* The schema graph: from a schema with a "$ref" the one edge is the       *)
(* reference, one hop; from a schema without "$ref" and with an "allOf"    *)
(* the edges are its branches.                                             *)
(***************************************************************************)
MarksPaginated(s) == "$ref" \in DOMAIN s /\ EndsWith(s["$ref"], SlashPaginated)

Successors(s) ==
    IF "$ref" \in DOMAIN s
    THEN IF MarksPaginated(s) \/ ~resolve_ref(DocOf(schemas), s["$ref"]).ok THEN {}
         ELSE {resolve_ref(DocOf(schemas), s["$ref"]).value}
    ELSE IF "allOf" \in DOMAIN s THEN Range(s["allOf"])
    ELSE {}

RECURSIVE Reachable(_)
Reachable(S) ==
    LET T == S \cup UNION {Successors(s) : s \in S}
    IN  IF T = S THEN S ELSE Reachable(T)

\* No schema reachable from root reaches itself.
Acyclic(root) == \A s \in Reachable({root}) : s \notin Reachable(Successors(s))

\* C3: is_paginated stops on every document; when its recursion closes a cycle
\* (it enters a schema it is already evaluating) it stops with a fatal error and
\* does not go on recursing.
C3_CycleIsFatal ==
    (\E i \in DOMAIN stack, j \in DOMAIN stack : i < j /\ stack[i].schema = stack[j].schema)
        => pc = "error"

\* C5: on an acyclic document is_paginated returns True exactly when the selected
\* response schema reaches, over references and allOf branches, a reference that
\* ends in "/Paginated"; and the recursion stays within the depth explored.
C5_PaginatedIffReaches ==
    Acyclic(call.schema) =>
        /\ Len(stack) < MaxDepth
        /\ pc = "done" =>
              ((ret = "True") <=> (\E s \in Reachable({call.schema}) : MarksPaginated(s)))

\* An acyclic schema was found paginated through an allOf branch and a reference
\* hop, none of its own branches being the reference to Paginated.
C5_Witness ==
    /\ pc = "done"
    /\ Acyclic(call.schema)
    /\ ret = "True"
    /\ "allOf" \in DOMAIN call.schema
    /\ \A i \in DOMAIN call.schema["allOf"] : ~MarksPaginated(call.schema["allOf"][i])

(***************************************************************************)
(* The functions main calls once per operation or per document.  call      *)
(* holds the function and its arguments, ret its return value.  None is    *)
(* <<>>, like the empty dict and the empty list: all three are falsy, and  *)
(* d.get(k) or {} is Get(d, k).                                            *)
(***************************************************************************)
None == <<>>
Get(d, k) == IF k \in DOMAIN d THEN d[k] ELSE None

IdleMain == doc = Idle /\ resources = Idle /\ out_resources = Idle
IdlePaginated == schemas = Idle /\ stack = Idle

\* The call returns v.
Returns(v) ==
    /\ pc' = "done"
    /\ ret' = v
    /\ UNCHANGED <<doc, resources, out_resources, schemas, stack, call>>

(***************************************************************************)
(* pick_response_schema                                                    *)
(***************************************************************************)
SuccessCodesSwapped == <<"201", "200", "202">>
SuccessCodes == <<"200", "201", "202">>

\* The loop "for code in (...)" from code i on.
RECURSIVE PickFrom(_, _)
PickFrom(responses, i) ==
    IF i > Len(SuccessCodes) THEN None
    ELSE LET resp == Get(responses, SuccessCodes[i])
             content == Get(Get(resp, "content"), "application/json")
             schema == Get(content, "schema")
         IN  IF resp = <<>> THEN PickFrom(responses, i + 1)
             ELSE IF schema # <<>> THEN schema
             ELSE PickFrom(responses, i + 1)

pick_response_schema(op) == PickFrom(Get(op, "responses"), 1)

\* The responses of the exploration: the schema of a code and a media type names both.
Codes == {"200", "201", "202", "204"}
SchemaOf(code, media) == [title |-> <<code, media>>]
ResponsesOf(code) ==
    { <<>>,
      [description |-> "d"],
      [content |-> ("application/json" :> [schema |-> SchemaOf(code, "application/json")])],
      [content |-> ("application/json" :> [example |-> "e"])],
      [content |-> ("text/plain" :> [schema |-> SchemaOf(code, "text/plain")])] }
ResponseMaps ==
    UNION { {r \in [S -> UNION {ResponsesOf(c) : c \in Codes}] :
                \A c \in S : r[c] \in ResponsesOf(c)} : S \in SUBSET Codes }

InitResponse ==
    /\ pc = "call"
    /\ \E r \in ResponseMaps :
          call \in { [fn |-> "pick_response_schema", op |-> [responses |-> r]] }
                   \cup { [fn |-> "pick_response_schema", op |-> [summary |-> "s"]] }
    /\ ret = None
    /\ IdleMain /\ IdlePaginated

PickResponseSchema ==
    /\ pc = "call"
    /\ call.fn = "pick_response_schema"
    /\ Returns(pick_response_schema(call.op))

SpecResponse == InitResponse /\ [][PickResponseSchema]_vars

\* The application/json schema of the response of a code, None without one.
JsonSchema(responses, code) ==
    IF code \in DOMAIN responses
       /\ "content" \in DOMAIN responses[code]
       /\ "application/json" \in DOMAIN responses[code]["content"]
       /\ "schema" \in DOMAIN responses[code]["content"]["application/json"]
    THEN responses[code]["content"]["application/json"]["schema"]
    ELSE None
ResponsesIn(op) == IF "responses" \in DOMAIN op THEN op["responses"] ELSE <<>>
Priority == <<"200", "201", "202">>

\* C4 as stated: the schema returned is the application/json schema of the first
\* of 200, 201, 202 that is present in the responses, and None when none is.
C4_FirstPresentCode ==
    pc = "done" =>
        LET present == {i \in 1..3 : Priority[i] \in DOMAIN ResponsesIn(call.op)}
        IN  ret = IF present = {} THEN None
                  ELSE JsonSchema(ResponsesIn(call.op), Priority[Min(present)])

\* C4 amended: the schema returned is the application/json schema of the first of
\* 200, 201, 202 whose response has one, and None when none of the three has one
\* (so never a schema of another code or of another media type).
C4_FirstCodeWithJsonSchema ==
    pc = "done" =>
        LET with == {i \in 1..3 : JsonSchema(ResponsesIn(call.op), Priority[i]) # None}
        IN  ret = IF with = {} THEN None
                  ELSE JsonSchema(ResponsesIn(call.op), Priority[Min(with)])

\* 200 is present without an application/json schema, 201 has one, and 201's was
\* returned.
C4_Witness ==
    /\ pc = "done"
    /\ "200" \in DOMAIN ResponsesIn(call.op)
    /\ JsonSchema(ResponsesIn(call.op), "200") = None
    /\ ret = SchemaOf("201", "application/json")

(***************************************************************************)
(* security of an operation: main, lines 122 and 151 to 153.               *)
(***************************************************************************)
MaxSecurity == 2    \* requirements of one security list

\* A mutant: "op.get("security") or global_security".
SecurityOr(d, op) ==
    IF Get(op, "security") # <<>> THEN op["security"] ELSE Get(d, "security")
Security(d, op) ==
    LET global_security == Get(d, "security")
    IN  IF Has(op, "security") THEN op["security"] ELSE global_security

Requirements == {"oauth2", "basic"}
SecurityLists == UNION {[1..n -> Requirements] : n \in 0..MaxSecurity}
WithSecurity == {[summary |-> "s"]} \cup {[security |-> l] : l \in SecurityLists}

InitSecurity ==
    /\ pc = "call"
    /\ \E d \in WithSecurity, op \in WithSecurity :
          call = [fn |-> "security", doc |-> d, op |-> op]
    /\ ret = None
    /\ IdleMain /\ IdlePaginated

OperationSecurity ==
    /\ pc = "call"
    /\ call.fn = "security"
    /\ Returns(Security(call.doc, call.op))

SpecSecurity == InitSecurity /\ [][OperationSecurity]_vars

\* C6: the security of an operation is its own security field whenever the field
\* is present, the empty list included; only without the field is it the global
\* list of the document.
C6_OwnSecurityWhenPresent ==
    pc = "done" =>
        IF "security" \in DOMAIN call.op THEN ret = call.op["security"]
        ELSE ret = (IF "security" \in DOMAIN call.doc THEN call.doc["security"] ELSE <<>>)

\* An operation with the explicit empty list, in a document with a global list
\* that is not empty, got the empty list.
C6_Witness ==
    /\ pc = "done"
    /\ "security" \in DOMAIN call.op /\ call.op["security"] = <<>>
    /\ "security" \in DOMAIN call.doc /\ call.doc["security"] # <<>>
    /\ ret = <<>>

(***************************************************************************)
(* api_version and base_url: main, lines 114 to 120.                       *)
(***************************************************************************)
MaxServers == 2     \* entries of doc["servers"]

DefaultBaseUrl == "https://api.pinterest.com/v5"

\* (d.get(k) or "") of a string field.
GetStr(d, k) == IF k \in DOMAIN d THEN d[k] ELSE ""

\* A mutant: the last server and not the first.
EnvelopeLastServer(d) ==
    LET servers == Get(d, "servers")
        url == IF servers # <<>> THEN GetStr(servers[Len(servers)], "url") ELSE ""
    IN  [ api_version |-> GetStr(Get(d, "info"), "version"),
          base_url |-> IF url = "" THEN DefaultBaseUrl ELSE url ]
Envelope(d) ==
    LET api_version == GetStr(Get(d, "info"), "version")
        servers == Get(d, "servers")
        base_url == IF servers # <<>> THEN GetStr(servers[1], "url") ELSE ""
    IN  [ api_version |-> api_version,
          base_url |-> IF base_url = "" THEN DefaultBaseUrl ELSE base_url ]

Servers == { <<>>, [description |-> "d"], [url |-> ""],
             [url |-> "https://a.example"], [url |-> "https://b.example"] }
ServerLists == UNION {[1..n -> Servers] : n \in 0..MaxServers}
Infos == { [title |-> "t"], [title |-> "t", version |-> "5.14.0"] }
Documents ==
    {[info |-> i] : i \in Infos} \cup {[paths |-> <<>>]}
    \cup {[info |-> i, servers |-> l] : i \in Infos, l \in ServerLists}

InitEnvelope ==
    /\ pc = "call"
    /\ \E d \in Documents : call = [fn |-> "envelope", doc |-> d]
    /\ ret = None
    /\ IdleMain /\ IdlePaginated

DocumentEnvelope ==
    /\ pc = "call"
    /\ call.fn = "envelope"
    /\ Returns(Envelope(call.doc))

SpecEnvelope == InitEnvelope /\ [][DocumentEnvelope]_vars

ServersIn(d) == IF "servers" \in DOMAIN d THEN d["servers"] ELSE <<>>

\* C9 as stated: with at least one server declared base_url is taken from the
\* first entry, and the default is used only if no server is declared.
C9_FirstServerOrNoServers ==
    pc = "done" =>
        /\ Len(ServersIn(call.doc)) > 0 =>
              /\ "url" \in DOMAIN ServersIn(call.doc)[1]
              /\ ret.base_url = ServersIn(call.doc)[1]["url"]
        /\ ret.base_url = DefaultBaseUrl => Len(ServersIn(call.doc)) = 0

\* C9 amended: base_url is the url of the first server when a server is declared
\* and its first entry has a url that is not empty; the default is used when no
\* server is declared or the first entry has no url or an empty one.
C9_FirstServerUrlOrDefault ==
    pc = "done" =>
        LET servers == ServersIn(call.doc)
            has_url == /\ Len(servers) > 0
                       /\ "url" \in DOMAIN servers[1]
                       /\ servers[1]["url"] # ""
        IN  ret.base_url = IF has_url THEN servers[1]["url"] ELSE DefaultBaseUrl

\* Two servers were declared, the first without url and the second with one, and
\* the default was used.
C9_Witness ==
    /\ pc = "done"
    /\ Len(ServersIn(call.doc)) = 2
    /\ "url" \notin DOMAIN ServersIn(call.doc)[1]
    /\ "url" \in DOMAIN ServersIn(call.doc)[2] /\ ServersIn(call.doc)[2]["url"] # ""
    /\ ret.base_url = DefaultBaseUrl

(***************************************************************************)
(* schema_type: [ok |-> TRUE, value |-> <<type, item type>>], the item     *)
(* type "None" for None; or the exception of resolve_ref.                  *)
(***************************************************************************)
\* schema.get("type") or "string"
TypeOr(schema) == IF GetStr(schema, "type") = "" THEN "string" ELSE schema["type"]

\* The schema itself, or what its "$ref" resolves to: one hop.
Deref(d, schema) ==
    IF Has(schema, "$ref") THEN resolve_ref(d, schema["$ref"])
    ELSE [ok |-> TRUE, value |-> schema]

\* A mutant: the "$ref" of items is not resolved.
schema_type_items_unresolved(d, schema) ==
    LET s == Deref(d, schema)
    IN  IF ~s.ok THEN s
        ELSE IF TypeOr(s.value) # "array" THEN [ok |-> TRUE, value |-> <<TypeOr(s.value), "None">>]
        ELSE [ok |-> TRUE, value |-> <<"array", TypeOr(Get(s.value, "items"))>>]
schema_type(d, schema) ==
    LET s == Deref(d, schema)
    IN  IF ~s.ok THEN s
        ELSE IF TypeOr(s.value) # "array" THEN [ok |-> TRUE, value |-> <<TypeOr(s.value), "None">>]
        ELSE LET items == Deref(d, Get(s.value, "items"))
             IN  IF ~items.ok THEN items
                 ELSE [ok |-> TRUE, value |-> <<"array", TypeOr(items.value)>>]

\* The schemas of the exploration.
ArrayOf(items) == [type |-> "array", items |-> items]
Integer == [type |-> "integer"]
TypedBodies ==
    { <<>>, Integer, [type |-> "array"], ArrayOf(Integer), ArrayOf(ArrayOf(Integer)),
      RefSchema(RefTo(B)), ArrayOf(RefSchema(RefTo(B))) }
TypedSchemas ==
    TypedBodies \cup {RefSchema(RefTo(A)), ArrayOf(RefSchema(RefTo(A))), RefSchema(RefExternal)}

InitSchemaType ==
    /\ pc = "call"
    /\ \E sch \in [SchemaNames -> TypedBodies], schema \in TypedSchemas :
          call = [fn |-> "schema_type", doc |-> DocOf(sch), schema |-> schema]
    /\ ret = None
    /\ IdleMain /\ IdlePaginated

SchemaType ==
    /\ pc = "call"
    /\ call.fn = "schema_type"
    /\ Returns(schema_type(call.doc, call.schema))

SpecSchemaType == InitSchemaType /\ [][SchemaType]_vars

\* The schema a schema stands for after at most one reference hop.
Hop(d, schema) ==
    IF "$ref" \in DOMAIN schema
    THEN d[components][schemas_key][SubSeq(schema["$ref"], Len(RefTo(<<>>)) + 1, Len(schema["$ref"]))]
    ELSE schema
TypeIn(schema) == IF "type" \in DOMAIN schema THEN schema["type"] ELSE "string"
ItemsIn(schema) == IF "items" \in DOMAIN schema THEN schema["items"] ELSE <<>>

\* type and item type are as C10 says, but for the item type of an array of arrays.
TypeAndItemType ==
    LET s == Hop(call.doc, call.schema)
    IN  /\ ret.value[1] = TypeIn(s)
        /\ TypeIn(s) # "array" => ret.value[2] = "None"
        /\ TypeIn(s) = "array" /\ TypeIn(Hop(call.doc, ItemsIn(s))) # "array"
              => ret.value[2] = TypeIn(Hop(call.doc, ItemsIn(s)))
IsArrayOfArrays ==
    LET s == Hop(call.doc, call.schema)
    IN  TypeIn(s) = "array" /\ TypeIn(Hop(call.doc, ItemsIn(s))) = "array"

\* C10 as stated: type is the type of the schema after at most one hop, "string"
\* by default; the item type is None unless type is "array", and then the type of
\* items after at most one hop, "string" by default; and "string" for an array
\* whose items are an array.
C10_ArrayOfArraysIsString ==
    (pc = "done" /\ ret.ok) =>
        /\ TypeAndItemType
        /\ IsArrayOfArrays => ret.value[2] = "string"

\* C10 amended: as stated, but for an array whose items are an array the item
\* type is "array", the type of the items schema itself; the type of the inner
\* items is not reported.
C10_ArrayOfArraysIsArray ==
    (pc = "done" /\ ret.ok) =>
        /\ TypeAndItemType
        /\ IsArrayOfArrays => ret.value[2] = "array"

\* An array whose items refer to an array of integers was typed.
C10_Witness ==
    /\ pc = "done" /\ ret.ok
    /\ IsArrayOfArrays
    /\ "$ref" \in DOMAIN ItemsIn(Hop(call.doc, call.schema))
    /\ ret.value = <<"array", "array">>

(***************************************************************************)
(* parse_param, and the params of an operation: main, lines 138 to 145.    *)
(***************************************************************************)
MaxParams == 2      \* parameters of one list, of the path item or of the operation

in_path == <<"p","a","t","h">>
in_query == <<"q","u","e","r","y">>
in_header == <<"h","e","a","d","e","r">>
in_cookie == <<"c","o","o","k","i","e">>

parse_param(d, param) ==
    LET t == schema_type(d, Get(param, "schema")).value
    IN  [ name |-> param["name"],
          flag |-> ReplaceUnderscore(param["name"]),
          in |-> param["in"],
          required |-> IF Has(param, "required") THEN param["required"] ELSE FALSE,
          style |-> IF Has(param, "style") THEN param["style"] ELSE "None",
          explode |-> IF Has(param, "explode") THEN param["explode"] ELSE "None",
          schema_type |-> t[1],
          items_type |-> t[2] ]

\* key(p) < key(q) for key = (p["in"] != "path", p["in"], p["name"]).
KeyLessNoPathFirst(p, q) ==
    IF p["in"] # q["in"] THEN StrLess(p["in"], q["in"])
    ELSE StrLess(p["name"], q["name"])
KeyLess(p, q) ==
    IF (p["in"] # in_path) # (q["in"] # in_path) THEN p["in"] = in_path
    ELSE IF p["in"] # q["in"] THEN StrLess(p["in"], q["in"])
    ELSE StrLess(p["name"], q["name"])

\* params.sort(key=...): a stable sort.
RECURSIVE InsertByKey(_, _)
InsertByKey(sorted, p) ==
    IF Len(sorted) = 0 THEN <<p>>
    ELSE IF KeyLess(p, sorted[Len(sorted)])
         THEN InsertByKey(SubSeq(sorted, 1, Len(sorted) - 1), p) \o <<sorted[Len(sorted)]>>
         ELSE sorted \o <<p>>

RECURSIVE SortByKey(_)
SortByKey(ps) ==
    IF Len(ps) = 0 THEN <<>>
    ELSE InsertByKey(SortByKey(SubSeq(ps, 1, Len(ps) - 1)), ps[Len(ps)])

\* The loop over path_item["parameters"] + op["parameters"], and the sort.
Params(d, path_item, op) ==
    LET listed == Get(path_item, "parameters") \o Get(op, "parameters")
        parsed == [i \in DOMAIN listed |->
                      parse_param(d, IF Has(listed[i], "$ref")
                                     THEN resolve_ref(d, listed[i]["$ref"]).value
                                     ELSE listed[i])]
    IN  SortByKey(parsed)

\* The parameters of the exploration.
id == <<"i","d">>
page_size == <<"p","a","g","e","_","s","i","z","e">>
parameters_key == parameters
Limit == <<"L","i","m","i","t">>
RefLimit == <<"#", "/">> \o components \o <<"/">> \o parameters_key \o <<"/">> \o Limit
ParamsDoc ==
    (components :> (parameters_key :>
        (Limit :> [name |-> page_size, in |-> in_cookie, schema |-> Integer])))

ParamObjects ==
    { [name |-> id, in |-> in_path, required |-> TRUE],
      [name |-> id, in |-> in_query],
      [name |-> id, in |-> in_query, schema |-> ArrayOf(Integer)],
      [name |-> page_size, in |-> in_query],
      [name |-> id, in |-> in_header],
      RefSchema(RefLimit) }
ParamLists == UNION {[1..n -> ParamObjects] : n \in 0..MaxParams}
WithParams == {[summary |-> "s"]} \cup {[parameters |-> l] : l \in ParamLists}

InitParams ==
    /\ pc = "call"
    /\ \E path_item \in WithParams, op \in WithParams :
          call = [fn |-> "params", doc |-> ParamsDoc, path_item |-> path_item, op |-> op]
    /\ ret = None
    /\ IdleMain /\ IdlePaginated

OperationParams ==
    /\ pc = "call"
    /\ call.fn = "params"
    /\ Returns(Params(call.doc, call.path_item, call.op))

SpecParams == InitParams /\ [][OperationParams]_vars

\* The parameter definitions of the call: the path item's, then the operation's.
ListIn(d) == IF "parameters" \in DOMAIN d THEN d["parameters"] ELSE <<>>
Listed == ListIn(call.path_item) \o ListIn(call.op)
Definition(i) ==
    IF "$ref" \in DOMAIN Listed[i] THEN call.doc[components][parameters_key][Limit]
    ELSE Listed[i]

\* Definition i comes before definition j in the order C8 states.
Before(i, j) ==
    LET p == Definition(i)
        q == Definition(j)
    IN  \/ p["in"] = in_path /\ q["in"] # in_path
        \/ /\ (p["in"] = in_path) = (q["in"] = in_path)
           /\ \/ StrLess(p["in"], q["in"])
              \/ p["in"] = q["in"] /\ StrLess(p["name"], q["name"])
              \/ p["in"] = q["in"] /\ p["name"] = q["name"] /\ i < j
Position(i) == 1 + Cardinality({j \in DOMAIN Listed : Before(j, i)})

=============================================================================
